---- MODULE Spec2Model ----
(***************************************************************************)
(* Hamiltonian Monte Carlo samplers of pgmpy/inference/continuous/         *)
(* sampling.py: HamiltonianMC and HamiltonianMCda.                         *)
(*                                                                         *)
(* Representation of the floating point quantities.                        *)
(*   - A float is a record [k, v]: k = "fin" with the value v, or one of   *)
(*     the IEEE specials "nan", "pinf", "ninf".  None is its own kind.     *)
(*   - Probabilities (acceptance_prob, alpha, delta, the uniform draw) are *)
(*     held in thousandths; h_bar in millionths.                           *)
(*   - Log-densities and energies are held in thousandths of a nat.        *)
(*   - stepsize, stepsize_bar and trajectory_length are held by their      *)
(*     natural logarithm, in thousandths of a nat: doubling adds Ln2,      *)
(*     np.log(stepsize) is the held value, np.exp(x) holds x.              *)
(***************************************************************************)
EXTENDS Integers, Sequences, FiniteSets, TLC

\* ------------------------------------------------------------------ bounds
MaxFrames  == 2   \* calls of sample / generate_sample made on the sampler
MaxSamples == 2   \* largest num_samples a caller passes
MaxAdjust  == 2   \* doubling/halving passes of _find_reasonable_stepsize explored
MaxLsteps  == 8   \* longest trajectory (integrator steps of one iteration) explored
MaxWarmSamples == 5       \* num_samples of the runs of SpecWarm

\* ------------------------------------------------------------- float values
Fin(n)  == [k |-> "fin",  v |-> n]
NaN     == [k |-> "nan",  v |-> 0]
PosInf  == [k |-> "pinf", v |-> 0]
NegInf  == [k |-> "ninf", v |-> 0]
None    == [k |-> "none", v |-> 0]

IsFin(x) == x.k = "fin"

\* x - y in IEEE arithmetic
FSub(x, y) ==
  IF x.k = "nan" \/ y.k = "nan" THEN NaN
  ELSE IF IsFin(x) /\ IsFin(y) THEN Fin(x.v - y.v)
  ELSE IF IsFin(x) THEN (IF y.k = "pinf" THEN NegInf ELSE PosInf)
  ELSE IF IsFin(y) THEN x
  ELSE IF x.k = y.k THEN NaN ELSE x

\* x > y in IEEE arithmetic: every comparison with nan is false
FGt(x, y) ==
  IF x.k = "nan" \/ y.k = "nan" THEN FALSE
  ELSE IF IsFin(x) /\ IsFin(y) THEN x.v > y.v
  ELSE IF x.k = y.k THEN FALSE
  ELSE x.k = "pinf" \/ y.k = "ninf"

FLt(x, y) == FGt(y, x)

\* np.exp on the grid of half nats the energies of this model lie on,
\* in thousandths: exp(-1.5) .. exp(1.5)
ExpTable == <<223, 368, 607, 1000, 1649, 2718, 4482>>

NpExp(x) ==
  IF x.k = "nan" THEN NaN
  ELSE IF x.k = "pinf" THEN PosInf
  ELSE IF x.k = "ninf" THEN Fin(0)
  ELSE Fin(ExpTable[(x.v \div 500) + 4])

\* ------------------------------------------------------ the model (oracle)
NumVars   == 1                 \* len(model.variables)
Positions == {<<0>>, <<1>>, <<2>>}
Momenta   == {<<0>>, <<1>>}    \* values np.random.normal draws
Uniforms  == {0, 500, 900}     \* values np.random.rand draws, in [0, 1)

\* model.get_gradient_log_pdf(position, grad_log_pdf) -> (gradient, logp):
\* a density that is zero at position <<2>>
LogPdfTable  == <<Fin(0), Fin(-1000), NegInf>>
GradTable    == <<Fin(-1000), Fin(1000), NaN>>
get_gradient_log_pdf(position) ==
  [grad |-> GradTable[position[1] + 1], logp |-> LogPdfTable[position[1] + 1]]

Dot(m) == 1000 * m[1] * m[1]

\* lines 91-104
_acceptance_prob(position, position_bar, momentum, momentum_bar) ==
  LET logp             == get_gradient_log_pdf(position).logp
      logp_bar         == get_gradient_log_pdf(position_bar).logp
      potential_change == FSub(logp_bar, logp)
      kinetic_change   == Fin((Dot(momentum_bar) - Dot(momentum)) \div 2)
  IN  NpExp(FSub(potential_change, kinetic_change))

\* a search that tests p ** a > 1 (the threshold 2 ** (-a) lost)
conditionAgainstOne(p, a) ==
  IF a = 1 THEN FGt(p, Fin(1000))
  ELSE IF p.k = "nan" THEN FALSE
  ELSE IF p.k = "pinf" THEN FALSE
  ELSE IF p.v = 0 THEN TRUE
  ELSE p.v < 1000

\* a ** x > 2 ** (-a) for p = acceptance_prob (a numpy float: 0.0 ** -1 is inf)
\* lines 130, 141
condition(p, a) ==
  IF a = 1 THEN FGt(p, Fin(500))
  ELSE IF p.k = "nan" THEN FALSE
  ELSE IF p.k = "pinf" THEN FALSE          \* inf ** -1 = 0.0
  ELSE IF p.v = 0 THEN TRUE                \* 0.0 ** -1 = inf
  ELSE p.v < 500                           \* 1 / p > 2

\* line 128: a = 2 * (acceptance_prob > 0.5) - 1
direction(p) == IF FGt(p, Fin(500)) THEN 1 ELSE -1

Ln2  == 693     \* log(2), thousandths: stepsize_app = (2 ** a) * stepsize_app
Ln10 == 2303    \* log(10.0), thousandths: mu = np.log(10.0 * stepsize)

\* least x (thousandths of a nat) with exp(x) >= n + 0.5, n = 1 .. 24
RoundUpAt == <<406, 917, 1253, 1505, 1705, 1872, 2015, 2141, 2252, 2352, 2443, 2526,
               2603, 2675, 2741, 2804, 2863, 2918, 2971, 3021, 3069, 3114, 3158, 3199>>

\* lines 157, 255, 325: int(max(1, round(trajectory_length / stepsize, 0)));
\* max(1, nan) is 1
Lsteps(trajectory_length, stepsize) ==
  IF ~IsFin(stepsize) \/ ~IsFin(trajectory_length) THEN 1
  ELSE LET x == trajectory_length.v - stepsize.v
       IN  1 + Cardinality({n \in 1..Len(RoundUpAt) : RoundUpAt[n] <= x})

\* --------------------------------------------------------- dual averaging
SqrtTable   == <<1000, 1414, 1732, 2000, 2236, 2449, 2646, 2828>>  \* sqrt(i)
IKappaTable == <<1000, 595, 439, 354, 299, 261, 232, 210>>         \* i ** (-0.75)

\* lines 398-414, with gamma = 0.05, t0 = 10.0, kappa = 0.75.
\* delta, alpha in thousandths; h_bar in millionths; stepsize, stepsize_bar, mu
\* by their logarithm.  A nan delta makes every result nan.
_adapt_params(delta, stepsize, stepsize_bar, h_bar, mu, index_i, alpha) ==
  IF ~IsFin(delta) \/ ~IsFin(h_bar) \/ ~IsFin(stepsize_bar) \/ ~IsFin(mu)
  THEN [stepsize |-> NaN, stepsize_bar |-> NaN, h_bar |-> NaN]
  ELSE
    LET h1  == ((index_i + 9) * h_bar.v + 1000 * (delta.v - alpha)) \div (index_i + 10)
        s1  == mu.v - (SqrtTable[index_i] * h1) \div 50000
        ik  == IKappaTable[index_i]
        sb1 == (ik * s1 + (1000 - ik) * stepsize_bar.v) \div 1000
    IN  [stepsize |-> Fin(s1), stepsize_bar |-> Fin(sb1), h_bar |-> Fin(h1)]

\* ------------------------------------------------------------- validation
\* pgmpy.utils._check_1d_array_object and _check_length_equal
\* (lines 244-245, 318-319, 469-470, 558-559)
ValidInitialPos(initial_pos) ==
  initial_pos.ndim = 1 /\ Len(initial_pos.vec) = NumVars

\* ------------------------------------------------------------------ state
VARIABLES
  sampler,   \* the sampler object: its class, delta, accepted_proposals, acceptance_rate
  ctor,      \* outcome of the last constructor call
  frames,    \* the calls of sample / generate_sample made on the sampler
  cur,       \* the frame that is executing (0: the caller's code is running)
  ev         \* what the step just taken did: the simulate_dynamics invocation, the
             \* decision of _sample, the return of _find_reasonable_stepsize, the
             \* run that completed

vars == <<sampler, ctor, frames, cur, ev>>

Frames == 1..MaxFrames

\* inputs the callers pass
Deltas == {[type |-> "float", val |-> Fin(-100)], [type |-> "float", val |-> Fin(0)],
           [type |-> "float", val |-> Fin(650)],  [type |-> "float", val |-> Fin(1000)],
           [type |-> "float", val |-> Fin(1500)], [type |-> "float", val |-> NaN],
           [type |-> "int",   val |-> Fin(1000)], [type |-> "str",   val |-> NaN]}
DefaultDelta == [type |-> "float", val |-> Fin(650)]
InitialPositions == {[ndim |-> 1, vec |-> <<0>>], [ndim |-> 1, vec |-> <<2>>],
                     [ndim |-> 1, vec |-> <<0, 1>>], [ndim |-> 2, vec |-> <<0>>]}
NumAdapts         == {1, 2}
NumSamples        == 1..MaxSamples
TrajectoryLengths == {Fin(0)}              \* trajectory_length = 1
Stepsizes         == {None, Fin(Ln2)}      \* stepsize = None, stepsize = 2.0

NoStep  == [p |-> None, u |-> 0, alpha |-> 0, accepted |-> FALSE,
            position |-> <<>>, position_bar |-> <<>>, returned |-> <<>>,
            before |-> 0]
NoSim   == [position |-> <<>>, stepsize |-> None, grad |-> None, by |-> "none"]
NoFound == [adjustments |-> -1, a |-> 0, prev_prob |-> None, acceptance_prob |-> None,
            stepsize |-> None]
NoEvent == [sim |-> NoSim, step |-> NoStep, found |-> NoFound, finished |-> 0]

NoFrame ==
  [method |-> "none", code |-> "none", pc |-> "none", error |-> "none",
   initial_pos |-> [ndim |-> 0, vec |-> <<>>], num_adapt |-> 0, num_samples |-> 0,
   arg_trajectory_length |-> None, arg_stepsize |-> None, da_stepsize |-> None,
   trajectory_length |-> None, stepsize |-> None, lsteps |-> 0,
   position_m |-> <<>>, i |-> 0, samples |-> <<>>, yields |-> 0,
   mu |-> None, stepsize_bar |-> None, h_bar |-> None,
   momentum |-> <<>>, position_bar |-> <<>>, momentum_bar |-> <<>>, grad_bar |-> None,
   left |-> 0, a |-> 0, adjustments |-> 0, acceptance_prob |-> None, prev_prob |-> None,
   nexts |-> 0, effects |-> 0, rate_writes |-> 0, own |-> 0]

Init ==
  /\ sampler = [cls |-> "none", delta |-> None, accepted_proposals |-> 0,
                acceptance_rate |-> <<0, 1>>]
  /\ ctor = [cls |-> "none", delta |-> DefaultDelta, result |-> "none"]
  /\ frames = [f \in Frames |-> NoFrame]
  /\ cur = 0
  /\ ev = NoEvent

\* ------------------------------------------------------------ constructors
\* a constructor that rejects delta = 0.0 as well
DeltaRejectedAtZero(delta) ==
  delta.type # "float" \/ FGt(delta.val, Fin(1000)) \/ ~FGt(delta.val, Fin(0))

\* HamiltonianMCda.__init__, line 389
DeltaRejected(delta) ==
  delta.type # "float" \/ FGt(delta.val, Fin(1000)) \/ FLt(delta.val, Fin(0))

\* HamiltonianMC.__init__, lines 85-89
NewSampler(cls, delta) ==
  [cls |-> cls, delta |-> delta, accepted_proposals |-> 0, acceptance_rate |-> <<0, 1>>]

\* HMC(model, grad_log_pdf, simulate_dynamics), lines 77-89
ConstructHMC(grad_ok, dynamics_ok) ==
  /\ sampler.cls = "none"
  /\ IF ~grad_ok \/ ~dynamics_ok
     THEN ctor' = [cls |-> "HMC", delta |-> DefaultDelta, result |-> "TypeError"]
          /\ UNCHANGED sampler
     ELSE ctor' = [cls |-> "HMC", delta |-> DefaultDelta, result |-> "ok"]
          /\ sampler' = NewSampler("HMC", None)
  /\ ev' = NoEvent
  /\ UNCHANGED <<frames, cur>>

\* HMCda(model, grad_log_pdf, simulate_dynamics, delta), lines 387-396
ConstructHMCda(grad_ok, dynamics_ok, delta) ==
  /\ sampler.cls = "none"
  /\ IF DeltaRejected(delta)
     THEN ctor' = [cls |-> "HMCda", delta |-> delta, result |-> "AttributeError"]
          /\ UNCHANGED sampler
     ELSE IF ~grad_ok \/ ~dynamics_ok
     THEN ctor' = [cls |-> "HMCda", delta |-> delta, result |-> "TypeError"]
          /\ UNCHANGED sampler
     ELSE ctor' = [cls |-> "HMCda", delta |-> delta, result |-> "ok"]
          /\ sampler' = NewSampler("HMCda", delta.val)
  /\ ev' = NoEvent
  /\ UNCHANGED <<frames, cur>>

\* ------------------------------------------------- the bodies of the methods
\* A context is the executing frame together with the two counters of the
\* sampler object it writes and the record of what the step did.
Ctx(fr, acc, rate) == [fr |-> fr, acc |-> acc, rate |-> rate, ev |-> NoEvent]

\* the locals of a frame die when it returns, raises or is exhausted
Locals(fr) ==
  [fr EXCEPT !.trajectory_length = None, !.stepsize = None, !.lsteps = 0,
             !.da_stepsize = None, !.position_m = <<>>, !.i = 0,
             !.mu = None, !.stepsize_bar = None, !.h_bar = None,
             !.momentum = <<>>, !.position_bar = <<>>, !.momentum_bar = <<>>,
             !.grad_bar = None, !.left = 0, !.a = 0, !.adjustments = 0,
             !.acceptance_prob = None, !.prev_prob = None]

\* raise err out of the frame
Raise(c, err) == [c EXCEPT !.fr = [Locals(c.fr) EXCEPT !.pc = "raised", !.error = err]]

\* lines 262, 334, 503, 587: self.acceptance_rate = self.accepted_proposals / num_samples
Finish(c, pc) ==
  [c EXCEPT !.rate = <<c.acc, c.fr.num_samples>>,
            !.fr = [Locals(c.fr) EXCEPT !.pc = pc, !.rate_writes = @ + 1],
            !.ev.finished = 1]

\* HamiltonianMC.generate_sample, lines 317-326, entered with the parameters
\* (initial_pos, num_samples, trajectory_length, stepsize), stepsize not None
HMC_generate_body(c, trajectory_length, stepsize) ==
  [c EXCEPT !.acc = 0,
            !.fr.own = 0,
            !.fr.code = "HMC",
            !.fr.trajectory_length = trajectory_length,
            !.fr.stepsize = stepsize,
            !.fr.lsteps = Lsteps(trajectory_length, stepsize),
            !.fr.position_m = c.fr.initial_pos.vec,
            !.fr.i = 0,
            !.fr.pc = "sample"]

\* lines 479-489 and 568-575: the set-up of the adaptation
DaSetup(c) ==
  [c EXCEPT !.fr.mu = IF IsFin(c.fr.stepsize) THEN Fin(Ln10 + c.fr.stepsize.v) ELSE NaN,
            !.fr.stepsize_bar = Fin(0),
            !.fr.h_bar = Fin(0),
            !.fr.position_m = c.fr.initial_pos.vec,
            !.fr.i = 1,
            !.fr.pc = "sample"]

\* HamiltonianMCda.sample, lines 475-491, once stepsize is known
HMCda_sample_body(c) ==
  IF c.fr.num_adapt <= 1
  THEN Raise(c, "NameError")             \* line 476 reads the name return_type
  ELSE LET d == [DaSetup(c) EXCEPT !.fr.samples = <<c.fr.initial_pos.vec>>]
       IN  IF 1 < c.fr.num_samples THEN d ELSE Finish(d, "returned")

\* HamiltonianMCda.generate_sample, lines 564-576, once stepsize is known
HMCda_generate_body(c) ==
  IF c.fr.num_adapt <= 1
  THEN \* line 565: HamiltonianMC.generate_sample(self, initial_pos, num_samples,
       \*                                        stepsize, trajectory_length)
       HMC_generate_body(c, c.fr.stepsize, c.fr.trajectory_length)
  ELSE [DaSetup(c) EXCEPT !.fr.num_adapt = @ + 1]                  \* line 574

\* what follows `stepsize = self._find_reasonable_stepsize(initial_pos)` or a
\* given stepsize, in the method the frame runs
AfterStepsize(c) ==
  LET d == [c EXCEPT !.fr.da_stepsize = c.fr.stepsize]
  IN  CASE c.fr.method = "HMC.generate_sample" ->
             HMC_generate_body(d, c.fr.trajectory_length, c.fr.stepsize)
        [] c.fr.method = "HMCda.sample"          -> HMCda_sample_body(d)
        [] c.fr.method = "HMCda.generate_sample" -> HMCda_generate_body(d)

\* an entry that derives the stepsize before it validates initial_pos
EntryValidatingLate(c, reset) ==
  LET d == [c EXCEPT !.acc = reset, !.fr.own = reset]
  IN  IF c.fr.arg_stepsize = None
      THEN [d EXCEPT !.fr.pc = "find_stepsize", !.fr.stepsize = Fin(0)]
      ELSE IF ~ValidInitialPos(c.fr.initial_pos) THEN Raise(d, "ValidationError")
      ELSE AfterStepsize([d EXCEPT !.fr.stepsize = c.fr.arg_stepsize])

\* the entry of a method up to the stepsize: the counter reset, the validation
\* of initial_pos, and the choice between a given and a derived stepsize
\* (lines 317-322, 467-473, 557-562)
Entry(c, reset) ==
  LET d == [c EXCEPT !.acc = reset, !.fr.own = reset]
  IN  IF ~ValidInitialPos(c.fr.initial_pos) THEN Raise(d, "ValidationError")
      ELSE IF c.fr.arg_stepsize = None
      THEN [d EXCEPT !.fr.pc = "find_stepsize", !.fr.stepsize = Fin(0)] \* stepsize_app=1
      ELSE AfterStepsize([d EXCEPT !.fr.stepsize = c.fr.arg_stepsize])

\* the frame a call creates
NewFrame(method, initial_pos, num_adapt, num_samples, trajectory_length, stepsize) ==
  [NoFrame EXCEPT !.method = method,
                  !.code = IF method \in {"HMC.generate_sample", "HMC.sample"}
                           THEN "HMC" ELSE "HMCda",
                  !.initial_pos = initial_pos, !.num_adapt = num_adapt,
                  !.num_samples = num_samples,
                  !.arg_trajectory_length = trajectory_length,
                  !.trajectory_length = trajectory_length,
                  !.arg_stepsize = stepsize]

Executing(pc) == pc \in {"find_stepsize", "find_loop", "sample", "leap", "accept"}

\* install the context as the new state of frame f
Install(f, c) ==
  /\ frames' = [frames EXCEPT ![f] = c.fr]
  /\ sampler' = [sampler EXCEPT !.accepted_proposals = c.acc, !.acceptance_rate = c.rate]
  /\ cur' = IF Executing(c.fr.pc) THEN f ELSE 0
  /\ ev' = [c.ev EXCEPT !.finished = IF @ = 1 THEN f ELSE 0]
  /\ UNCHANGED ctor

Here(f) == Ctx(frames[f], sampler.accepted_proposals, sampler.acceptance_rate)

\* the caller makes its calls one after the other: frame f is the next unused one
Fresh(f) ==
  /\ cur = 0
  /\ frames[f].method = "none"
  /\ \A g \in Frames : g < f => frames[g].method # "none"

\* ------------------------------------------------------------------- calls
\* HamiltonianMC.sample(initial_pos, num_samples, trajectory_length, stepsize):
\* line 239 reads the local return_type before it is assigned
HMC_sample(f, initial_pos, num_samples, trajectory_length, stepsize) ==
  /\ Fresh(f)
  /\ sampler.cls = "HMC"
  /\ Install(f, Raise(Ctx(NewFrame("HMC.sample", initial_pos, 0, num_samples,
                                   trajectory_length, stepsize),
                          sampler.accepted_proposals, sampler.acceptance_rate),
                      "UnboundLocalError"))

\* HamiltonianMCda.sample(initial_pos, num_adapt, num_samples, trajectory_length, stepsize)
HMCda_sample(f, initial_pos, num_adapt, num_samples, trajectory_length, stepsize) ==
  /\ Fresh(f)
  /\ sampler.cls = "HMCda"
  /\ Install(f, Entry(Ctx(NewFrame("HMCda.sample", initial_pos, num_adapt, num_samples,
                                   trajectory_length, stepsize),
                          sampler.accepted_proposals, sampler.acceptance_rate), 1))

\* generate_sample(...) of either class: the call returns a generator, none of
\* the body runs before the first draw
generate_sample(f, initial_pos, num_adapt, num_samples, trajectory_length, stepsize) ==
  /\ Fresh(f)
  /\ sampler.cls \in {"HMC", "HMCda"}
  /\ sampler.cls = "HMC" <=> num_adapt = 0
  /\ Install(f, [Ctx(NewFrame(IF sampler.cls = "HMC" THEN "HMC.generate_sample"
                               ELSE "HMCda.generate_sample",
                               initial_pos, num_adapt, num_samples, trajectory_length,
                               stepsize),
                      sampler.accepted_proposals, sampler.acceptance_rate)
                    EXCEPT !.fr.pc = "created"])

\* resuming after the yield: the next pass of the loop, or the end of the
\* generator (lines 328-334, 576-587)
Resume(c) ==
  IF c.fr.i + 1 < (IF c.fr.code = "HMC" THEN c.fr.num_samples ELSE c.fr.num_samples + 1)
  THEN [c EXCEPT !.fr.i = @ + 1, !.fr.pc = "sample"]
  ELSE Finish(c, "done")

\* next(generator): the first draw runs the body from its entry, a later draw
\* resumes after the yield
NextDraw(f) ==
  /\ cur = 0
  /\ frames[f].pc \in {"created", "yielded"}
  /\ LET c == [Here(f) EXCEPT !.fr.nexts = @ + 1]
     IN  IF frames[f].pc = "created" THEN Install(f, Entry(c, 0))
         ELSE Install(f, Resume(c))

\* ------------------------------------------------ _find_reasonable_stepsize
\* what simulate_dynamics(...).get_proposed_values() can return: any position
\* and momentum, with the gradient of the log-density at the new position
Proposals == {[position |-> q, momentum |-> m, grad |-> get_gradient_log_pdf(q).grad] :
                q \in Positions, m \in Momenta}

\* a search with an `if` in place of the `while`: at most one adjustment
FindContinueOnce(c) ==
  IF condition(c.fr.acceptance_prob, c.fr.a) /\ c.fr.adjustments = 0
  THEN [c EXCEPT !.fr.pc = "find_loop"]
  ELSE AfterStepsize([c EXCEPT !.fr.a = 0, !.fr.adjustments = 0,
                               !.fr.acceptance_prob = None, !.fr.prev_prob = None,
                               !.fr.momentum = <<>>, !.fr.grad_bar = None,
                               !.ev.found = [adjustments |-> c.fr.adjustments,
                                             a |-> c.fr.a,
                                             prev_prob |-> c.fr.prev_prob,
                                             acceptance_prob |-> c.fr.acceptance_prob,
                                             stepsize |-> c.fr.stepsize]])

\* lines 130-143: go round the loop again, or return stepsize_app
FindContinue(c) ==
  IF condition(c.fr.acceptance_prob, c.fr.a)
  THEN [c EXCEPT !.fr.pc = "find_loop"]
  ELSE AfterStepsize([c EXCEPT !.fr.a = 0, !.fr.adjustments = 0,
                               !.fr.acceptance_prob = None, !.fr.prev_prob = None,
                               !.fr.momentum = <<>>, !.fr.grad_bar = None,
                               !.ev.found = [adjustments |-> c.fr.adjustments,
                                             a |-> c.fr.a,
                                             prev_prob |-> c.fr.prev_prob,
                                             acceptance_prob |-> c.fr.acceptance_prob,
                                             stepsize |-> c.fr.stepsize]])

\* lines 117-130: the momentum draw and the first exploratory step
_find_reasonable_stepsize(f, momentum, proposed) ==
  /\ cur = f
  /\ frames[f].pc = "find_stepsize"
  /\ LET position == frames[f].initial_pos.vec
         p == _acceptance_prob(position, proposed.position, momentum, proposed.momentum)
     IN  Install(f, FindContinue(
           [Here(f) EXCEPT !.fr.momentum = momentum,
                           !.fr.grad_bar = proposed.grad,
                           !.fr.acceptance_prob = p,
                           !.fr.a = direction(p),
                           !.fr.effects = 1,
                           !.ev.sim = [position |-> position,
                                       stepsize |-> frames[f].stepsize,
                                       grad |-> None,
                                       by |-> "_find_reasonable_stepsize"]]))

\* lines 132-141: one pass of the doubling / halving loop.  The loop has no
\* bound on its passes; passes beyond MaxAdjust are not told apart: the count
\* of adjustments and the stepsize then stay at the values of pass MaxAdjust.
FindLoop(f, proposed) ==
  /\ cur = f
  /\ frames[f].pc = "find_loop"
  /\ LET fr == frames[f]
         position == fr.initial_pos.vec
         stepsize_app == IF fr.adjustments < MaxAdjust
                         THEN Fin(fr.stepsize.v + fr.a * Ln2)
                         ELSE fr.stepsize
         p == _acceptance_prob(position, proposed.position, fr.momentum, proposed.momentum)
     IN  Install(f, FindContinue(
           [Here(f) EXCEPT !.fr.stepsize = stepsize_app,
                           !.fr.grad_bar = proposed.grad,
                           !.fr.prev_prob = fr.acceptance_prob,
                           !.fr.acceptance_prob = p,
                           !.fr.adjustments = IF @ < MaxAdjust THEN @ + 1 ELSE @,
                           !.ev.sim = [position |-> position, stepsize |-> stepsize_app,
                                       grad |-> fr.grad_bar,
                                       by |-> "_find_reasonable_stepsize"]]))

\* ------------------------------------------------------------------ _sample
\* lines 149-159: the momentum draw, the copy of the position, L, the gradient
SampleBegin(f, momentum) ==
  /\ cur = f
  /\ frames[f].pc = "sample"
  /\ LET fr == frames[f]
         lsteps == IF fr.code = "HMC" THEN fr.lsteps
                   ELSE Lsteps(fr.trajectory_length, fr.stepsize)
     IN  /\ lsteps <= MaxLsteps
         /\ Install(f, [Here(f) EXCEPT
               !.fr.momentum = momentum,
               !.fr.position_bar = fr.position_m,
               !.fr.momentum_bar = momentum,
               !.fr.grad_bar = get_gradient_log_pdf(fr.position_m).grad,
               !.fr.left = lsteps,
               !.fr.effects = 1,
               !.fr.pc = "leap"])

\* lines 161-164: one pass of the trajectory loop
SampleLeap(f, proposed) ==
  /\ cur = f
  /\ frames[f].pc = "leap"
  /\ LET fr == frames[f]
     IN  Install(f, [Here(f) EXCEPT !.fr.position_bar = proposed.position,
                                    !.fr.momentum_bar = proposed.momentum,
                                    !.fr.grad_bar = proposed.grad,
                                    !.fr.left = @ - 1,
                                    !.fr.pc = IF fr.left = 1 THEN "accept" ELSE "leap",
                                    !.ev.sim = [position |-> fr.position_bar,
                                                stepsize |-> fr.stepsize,
                                                grad |-> fr.grad_bar,
                                                by |-> "_sample"]])

\* line 169: alpha = min(1, acceptance_prob); Python's min keeps its first
\* argument unless a later one compares less
Alpha(acceptance_prob) ==
  IF FLt(acceptance_prob, Fin(1000)) THEN acceptance_prob.v ELSE 1000

\* a step that also accepts on a draw equal to alpha
AcceptsOnEqual(u, alpha) == u <= alpha

\* line 172: np.random.rand() < alpha
Accepts(u, alpha) == u < alpha

\* an adaptation that never freezes the stepsize to stepsize_bar
AdaptNeverFreezing(c, alpha) ==
  IF c.fr.i <= c.fr.num_adapt
  THEN LET r == _adapt_params(sampler.delta, c.fr.stepsize, c.fr.stepsize_bar,
                              c.fr.h_bar, c.fr.mu, c.fr.i, alpha)
       IN  [c EXCEPT !.fr.stepsize = r.stepsize, !.fr.stepsize_bar = r.stepsize_bar,
                     !.fr.h_bar = r.h_bar]
  ELSE c

\* lines 498-501, 580-583: adapt the stepsize, or freeze it
Adapt(c, alpha) ==
  IF c.fr.i <= c.fr.num_adapt
  THEN LET r == _adapt_params(sampler.delta, c.fr.stepsize, c.fr.stepsize_bar,
                              c.fr.h_bar, c.fr.mu, c.fr.i, alpha)
       IN  [c EXCEPT !.fr.stepsize = r.stepsize, !.fr.stepsize_bar = r.stepsize_bar,
                     !.fr.h_bar = r.h_bar]
  ELSE [c EXCEPT !.fr.stepsize = c.fr.stepsize_bar]

\* a generator that keeps a running acceptance_rate at every yield
YieldWithRate(c) ==
  [c EXCEPT !.fr.pc = "yielded", !.fr.yields = @ + 1,
            !.rate = <<c.acc, c.fr.num_samples>>]

\* lines 332, 585: yield np.reshape(position_m, shape)
Yield(c) == [c EXCEPT !.fr.pc = "yielded", !.fr.yields = @ + 1]

\* what the caller of _sample does with (position, alpha)
\* (lines 330-332, 494-501, 578-585)
AfterSample(c0, position, alpha) ==
  LET c == [c0 EXCEPT !.fr.position_m = position, !.fr.momentum = <<>>,
                      !.fr.position_bar = <<>>, !.fr.momentum_bar = <<>>,
                      !.fr.grad_bar = None, !.fr.left = 0]
  IN  CASE c.fr.code = "HMC" -> Yield(c)
        [] c.fr.code = "HMCda" /\ c.fr.method = "HMCda.generate_sample" ->
             Yield(Adapt(c, alpha))
        [] c.fr.code = "HMCda" /\ c.fr.method = "HMCda.sample" ->
             LET d == Adapt([c EXCEPT !.fr.samples = Append(@, position)], alpha)
             IN  IF d.fr.i + 1 < d.fr.num_samples
                 THEN [d EXCEPT !.fr.i = @ + 1, !.fr.pc = "sample"]
                 ELSE Finish(d, "returned")

\* lines 166-176: the acceptance probability, the uniform draw, accept or reject
SampleAccept(f, u) ==
  /\ cur = f
  /\ frames[f].pc = "accept"
  /\ LET fr == frames[f]
         acceptance_prob == _acceptance_prob(fr.position_m, fr.position_bar,
                                             fr.momentum, fr.momentum_bar)
         alpha    == Alpha(acceptance_prob)
         accepted == Accepts(u, alpha)
         position == IF accepted THEN fr.position_bar ELSE fr.position_m
         c        == [Here(f) EXCEPT !.acc = IF accepted THEN @ + 1 ELSE @,
                                     !.fr.own = IF accepted THEN @ + 1 ELSE @,
                                     !.ev.step = [p |-> acceptance_prob, u |-> u,
                                                  alpha |-> alpha, accepted |-> accepted,
                                                  position |-> fr.position_m,
                                                  position_bar |-> fr.position_bar,
                                                  returned |-> position,
                                                  before |-> sampler.accepted_proposals]]
     IN  Install(f, AfterSample(c, position, alpha))

\* ----------------------------------------------------------- specifications
\* the steps inside a call
Steps(f) ==
  \/ \E m \in Momenta, q \in Proposals : _find_reasonable_stepsize(f, m, q)
  \/ \E q \in Proposals : FindLoop(f, q)
  \/ \E m \in Momenta : SampleBegin(f, m)
  \/ \E q \in Proposals : SampleLeap(f, q)
  \/ \E u \in Uniforms : SampleAccept(f, u)

\* One sampler and one call on it, with every input.
Next ==
  \/ \E g \in BOOLEAN, d \in BOOLEAN : ConstructHMC(g, d)
  \/ \E g \in BOOLEAN, d \in BOOLEAN, delta \in Deltas : ConstructHMCda(g, d, delta)
  \/ \E ip \in InitialPositions, ns \in NumSamples,
        tl \in TrajectoryLengths, ss \in Stepsizes : HMC_sample(1, ip, ns, tl, ss)
  \/ \E ip \in InitialPositions, na \in NumAdapts, ns \in NumSamples,
        tl \in TrajectoryLengths, ss \in Stepsizes : HMCda_sample(1, ip, na, ns, tl, ss)
  \/ \E ip \in InitialPositions, na \in NumAdapts \cup {0},
        ns \in NumSamples, tl \in TrajectoryLengths, ss \in Stepsizes :
        generate_sample(1, ip, na, ns, tl, ss)
  \/ NextDraw(1)
  \/ Steps(1)

Spec == Init /\ [][Next]_vars

\* One sampler and up to MaxFrames calls on it, the draws of its generators
\* interleaved in any order; valid inputs with a given stepsize.
GoodPosition == [ndim |-> 1, vec |-> <<0>>]

NextRuns ==
  \/ ConstructHMC(TRUE, TRUE)
  \/ ConstructHMCda(TRUE, TRUE, DefaultDelta)
  \/ \E f \in Frames, ns \in NumSamples : HMC_sample(f, GoodPosition, ns, Fin(0), Fin(Ln2))
  \/ \E f \in Frames, na \in NumAdapts, ns \in NumSamples :
        HMCda_sample(f, GoodPosition, na, ns, Fin(0), Fin(Ln2))
  \/ \E f \in Frames, na \in NumAdapts \cup {0}, ns \in NumSamples :
        generate_sample(f, GoodPosition, na, ns, Fin(0), Fin(Ln2))
  \/ \E f \in Frames : NextDraw(f)
  \/ \E f \in Frames, m \in Momenta : SampleBegin(f, m)
  \/ \E f \in Frames, q \in Proposals : SampleLeap(f, q)
  \/ \E f \in Frames, u \in Uniforms : SampleAccept(f, u)

SpecRuns == Init /\ [][NextRuns]_vars

\* One HamiltonianMCda sampler and one run of it with the shortest warm-up
\* that adapts (num_adapt = 2), long enough to leave the warm-up.
WarmSamples == 1..MaxWarmSamples

NextWarm ==
  \/ ConstructHMCda(TRUE, TRUE, DefaultDelta)
  \/ \E ns \in WarmSamples : HMCda_sample(1, GoodPosition, 2, ns, Fin(0), Fin(Ln2))
  \/ \E ns \in WarmSamples : generate_sample(1, GoodPosition, 2, ns, Fin(0), Fin(Ln2))
  \/ NextDraw(1)
  \/ \E m \in Momenta : SampleBegin(1, m)
  \/ \E q \in Proposals : SampleLeap(1, q)
  \/ \E u \in Uniforms : SampleAccept(1, u)

SpecWarm == Init /\ [][NextWarm]_vars

\* One HamiltonianMCda sampler and one call that derives its stepsize
\* (stepsize=None), followed up to the sampling loop.  The interpreter runs a
\* call that has been entered: the search always takes its next step (when to
\* make a call or to draw from a generator is the caller's choice).
FirstStep == \E m \in Momenta, q \in Proposals : _find_reasonable_stepsize(1, m, q)
LoopPass  == \E q \in Proposals : FindLoop(1, q)

NextSearch ==
  \/ ConstructHMCda(TRUE, TRUE, DefaultDelta)
  \/ \E ns \in NumSamples : HMCda_sample(1, GoodPosition, 2, ns, Fin(0), None)
  \/ \E ns \in NumSamples : generate_sample(1, GoodPosition, 2, ns, Fin(0), None)
  \/ NextDraw(1)
  \/ FirstStep
  \/ LoopPass

SpecSearch ==
  Init /\ [][NextSearch]_vars /\ WF_vars(FirstStep) /\ WF_vars(LoopPass)

\* ===================================================================== properties
Eager(fr) == fr.method \in {"HMC.sample", "HMCda.sample"}
Lazy(fr)  == fr.method \in {"HMC.generate_sample", "HMCda.generate_sample"}
Ended(fr) == fr.method # "none" /\ fr.pc \in {"returned", "raised", "done"}

\* C1: every valid eager call of sample (HamiltonianMC.sample and
\* HamiltonianMCda.sample), initial_pos a 1-D vector of the model's length and
\* num_samples >= 1, returns a chain of exactly num_samples rows whose row 0
\* is initial_pos.
C1_EagerSampleReturnsChain ==
  \A f \in Frames :
    (Eager(frames[f]) /\ ValidInitialPos(frames[f].initial_pos)
       /\ frames[f].num_samples >= 1 /\ Ended(frames[f]))
    => /\ frames[f].pc = "returned"
       /\ Len(frames[f].samples) = frames[f].num_samples
       /\ frames[f].samples[1] = frames[f].initial_pos.vec

\* C2: with num_adapt <= 1, HamiltonianMCda.sample and .generate_sample run
\* HamiltonianMC's method with the caller's parameters: the base code gets the
\* caller's trajectory_length as trajectory_length and the caller's (or the
\* derived) stepsize as stepsize, so that it takes the same number of
\* integrator steps at the same stepsize and produces the same output.
C2_DegenerateAdapterIsPlainHMC ==
  \A f \in Frames :
    (frames[f].method \in {"HMCda.sample", "HMCda.generate_sample"}
       /\ frames[f].num_adapt <= 1)
    => /\ frames[f].error # "NameError"
       /\ frames[f].pc \in {"sample", "leap", "accept", "yielded"}
            => /\ frames[f].code = "HMC"
               /\ frames[f].trajectory_length = frames[f].arg_trajectory_length
               /\ frames[f].stepsize = frames[f].da_stepsize
               /\ frames[f].lsteps = Lsteps(frames[f].arg_trajectory_length,
                                            frames[f].da_stepsize)

\* C3: when a run with num_samples >= 1 completes (an eager call returns, a
\* lazy sequence is drained), 0 <= accepted_proposals <= num_samples and
\* acceptance_rate = accepted_proposals / num_samples.
C3_CountersAfterRun ==
  \A f \in Frames :
    ev.finished = f
    => /\ 0 <= sampler.accepted_proposals
       /\ sampler.accepted_proposals <= frames[f].num_samples
       /\ sampler.acceptance_rate = <<sampler.accepted_proposals, frames[f].num_samples>>

\* C5: in the one-iteration step, a non-finite acceptance probability (NaN or
\* +infinity) is rejected for every uniform draw: the returned position is the
\* current position and accepted_proposals is not incremented; an acceptance
\* probability of exactly 0 is rejected likewise.
C5_NonFiniteIsRejected ==
  (ev.step.p.k \in {"nan", "pinf"} \/ ev.step.p = Fin(0))
  => /\ ev.step.returned = ev.step.position
     /\ sampler.accepted_proposals = ev.step.before

\* C8: runs on one sampler are independent: at the completion of a run,
\* accepted_proposals counts the accepted moves of that run only, so it is at
\* most that run's num_samples, and the acceptance_rate written is at most 1.
C8_RunsAreIndependent ==
  \A f \in Frames :
    ev.finished = f
    => /\ sampler.accepted_proposals = frames[f].own
       /\ frames[f].own <= frames[f].num_samples
       /\ sampler.acceptance_rate[1] <= sampler.acceptance_rate[2]

\* C4 as stated: constructing HamiltonianMCda fails on delta exactly when delta
\* is not a real number or lies outside (0.0, 1.0]; every delta <= 0.0, exactly
\* 0.0 included, is rejected.
RealInHalfOpenUnit(delta) ==
  delta.type \in {"float", "int"} /\ IsFin(delta.val)
    /\ 0 < delta.val.v /\ delta.val.v <= 1000

C4_DeltaInHalfOpenInterval ==
  ctor.cls = "HMCda" /\ ctor.result # "none"
  => /\ ctor.result = "AttributeError" <=> ~RealInHalfOpenUnit(ctor.delta)
     /\ ctor.result = "ok" => sampler.delta = ctor.delta.val

\* C4 as amended: the constructor rejects delta exactly when delta is not a
\* float, or delta > 1.0, or delta < 0.0: every float in the closed interval
\* [0.0, 1.0], exactly 0.0 included, is accepted and stored (and so is a NaN,
\* which compares false both ways); a rejection leaves no sampler constructed.
FloatInClosedUnit(delta) ==
  delta.type = "float"
    /\ (delta.val.k = "nan" \/ (IsFin(delta.val) /\ 0 <= delta.val.v /\ delta.val.v <= 1000))

C4_DeltaInClosedInterval ==
  ctor.cls = "HMCda" /\ ctor.result # "none"
  => /\ ctor.result = "AttributeError" <=> ~FloatInClosedUnit(ctor.delta)
     /\ ctor.result = "ok" => sampler.cls = "HMCda" /\ sampler.delta = ctor.delta.val
     /\ ctor.result # "ok" => sampler.cls = "none"

C4_ZeroDeltaAccepted ==
  ctor.cls = "HMCda" /\ ctor.result = "ok" /\ ctor.delta.val = Fin(0)
    /\ sampler.delta = Fin(0)

\* C6 as stated: every validation error of sample and generate_sample is raised
\* by the call itself, before any random draw, oracle call or iteration; for
\* generate_sample it is raised when generate_sample is called, not at the
\* first draw from the lazy sequence.
C6_ValidationAtCallEntry ==
  \A f \in Frames :
    (frames[f].method # "none" /\ ~ValidInitialPos(frames[f].initial_pos))
    => frames[f].pc = "raised" /\ frames[f].nexts = 0 /\ frames[f].effects = 0

\* C6 as amended: every validation error is raised before any random draw,
\* oracle call or iteration; sample raises it in the call itself, while
\* generate_sample (both samplers) returns a lazy sequence and raises it at the
\* first draw from that sequence.
C6_ValidationBeforeAnyWork ==
  \A f \in Frames :
    /\ (frames[f].method # "none" /\ ~ValidInitialPos(frames[f].initial_pos))
       => /\ frames[f].effects = 0
          /\ Eager(frames[f]) => frames[f].pc = "raised" /\ frames[f].nexts = 0
          /\ Lazy(frames[f]) =>
               \/ frames[f].pc = "created" /\ frames[f].nexts = 0
               \/ frames[f].pc = "raised" /\ frames[f].nexts = 1
                    /\ frames[f].error = "ValidationError"
    /\ frames[f].error = "ValidationError"
       => ~ValidInitialPos(frames[f].initial_pos) /\ frames[f].effects = 0

C6_LazyErrorAtFirstDraw ==
  \E f \in Frames :
    Lazy(frames[f]) /\ frames[f].error = "ValidationError" /\ frames[f].nexts = 1

\* C7: a generate_sample sequence yields exactly num_samples positions and then
\* ends; acceptance_rate keeps the value it had before the run until the
\* sequence is exhausted, and is set exactly once, to
\* accepted_proposals / num_samples, when the consumer drains it.
C7_RateFinalizedAtExhaustion ==
  \A f \in Frames :
    Lazy(frames[f]) =>
      /\ frames[f].yields <= frames[f].num_samples
      /\ frames[f].pc \in {"created", "find_stepsize", "find_loop", "sample", "leap",
                            "accept", "yielded"}
           => frames[f].rate_writes = 0 /\ sampler.acceptance_rate = <<0, 1>>
      /\ frames[f].pc = "done"
           => /\ frames[f].yields = frames[f].num_samples
              /\ frames[f].rate_writes = 1
              /\ sampler.acceptance_rate =
                   <<sampler.accepted_proposals, frames[f].num_samples>>
      /\ frames[f].pc = "raised" => frames[f].yields = 0 /\ frames[f].rate_writes = 0

C7_DrainedSequence ==
  \E f \in Frames :
    Lazy(frames[f]) /\ frames[f].pc = "done" /\ frames[f].yields = 2
      /\ sampler.acceptance_rate = <<1, 2>>

\* distance of an acceptance probability from 0.5, and IEEE <=
DistFromHalf(p) ==
  IF IsFin(p) THEN Fin(IF p.v >= 500 THEN p.v - 500 ELSE 500 - p.v)
  ELSE IF p.k = "nan" THEN NaN ELSE PosInf
FLe(x, y) == x.k # "nan" /\ y.k # "nan" /\ ~FGt(x, y)

\* C9 as stated: whenever _find_reasonable_stepsize makes at least one
\* adjustment, the acceptance probability at the returned stepsize is no farther
\* from 0.5 than the acceptance probability at the stepsize held before the
\* last adjustment.
C9_ReturnedNoFartherFromHalf ==
  ev.found.adjustments >= 1
  => FLe(DistFromHalf(ev.found.acceptance_prob), DistFromHalf(ev.found.prev_prob))

\* C9 as amended: whenever the search makes at least one adjustment, the
\* acceptance probability it computed at the stepsize held before the last
\* adjustment lay strictly on the search's side of 0.5 (above 0.5 when doubling,
\* below 0.5 when halving) and the one it computed at the returned stepsize does
\* not: the search stops at the first stepsize whose acceptance probability
\* reaches or crosses 0.5 (or is NaN), however far beyond 0.5 it lands.
C9_SearchStopsAtFirstCrossing ==
  ev.found.adjustments >= 1
  => /\ ev.found.a \in {1, -1}
     /\ ev.found.a = 1
          => /\ FGt(ev.found.prev_prob, Fin(500))
             /\ ~FGt(ev.found.acceptance_prob, Fin(500))
     /\ ev.found.a = -1
          => /\ FLt(ev.found.prev_prob, Fin(500))
             /\ ~FLt(ev.found.acceptance_prob, Fin(500))

C9_DoublingOvershoots ==
  /\ ev.found.adjustments = 1 /\ ev.found.a = 1
  /\ ev.found.prev_prob = Fin(607) /\ ev.found.acceptance_prob = Fin(223)
  /\ ev.found.stepsize = Fin(Ln2)

\* C10: in _sample, for a finite acceptance probability p and a uniform draw u,
\* the proposal is accepted iff u < min(1, p); on accept the returned position
\* is the post-trajectory position and accepted_proposals grows by exactly 1;
\* on reject the returned position is the input position and accepted_proposals
\* is unchanged; the returned alpha is min(1, p), and the input position (the
\* previous row of an eager chain) is left as it was.
C10_MetropolisStep ==
  IsFin(ev.step.p)
  => LET st  == ev.step
         fr  == frames[1]
         min == IF st.p.v < 1000 THEN st.p.v ELSE 1000
     IN  /\ st.alpha = min
         /\ st.accepted <=> st.u < min
         /\ st.accepted => /\ st.returned = st.position_bar
                           /\ sampler.accepted_proposals = st.before + 1
         /\ ~st.accepted => /\ st.returned = st.position
                            /\ sampler.accepted_proposals = st.before
         /\ fr.pc \in {"sample", "yielded"} => fr.position_m = st.returned
         /\ fr.method = "HMCda.sample"
              => /\ fr.samples[Len(fr.samples)] = st.returned
                 /\ fr.samples[Len(fr.samples) - 1] = st.position

C10_AcceptedMove ==
  /\ ev.step.p = Fin(607) /\ ev.step.u = 500 /\ ev.step.accepted
  /\ ev.step.position = <<0>> /\ ev.step.position_bar = <<1>>
  /\ ev.step.returned = <<1>>
  /\ sampler.accepted_proposals = ev.step.before + 1

\* the frame is inside the loop of a dual-averaging run (frames[f].num_adapt is
\* the loop's bound: num_adapt in sample, num_adapt + 1 in generate_sample)
InDaLoop(fr) == fr.code = "HMCda" /\ fr.pc \in {"sample", "leap", "accept", "yielded"}

\* C11 as stated: in a HamiltonianMCda run with num_adapt >= 2, every iteration
\* after the warm-up (i > num_adapt in sample, i > num_adapt + 1 in
\* generate_sample) simulates its trajectory with the stepsize_bar reached at
\* the end of the warm-up.
C11_PostWarmupUsesStepsizeBar ==
  \A f \in Frames :
    (cur = f /\ InDaLoop(frames[f]) /\ ev.sim.by = "_sample"
       /\ frames[f].i > frames[f].num_adapt)
    => ev.sim.stepsize = frames[f].stepsize_bar

\* C11 as amended: the dual-averaging update is applied after iteration i
\* exactly when i is within the warm-up, and after every later iteration
\* stepsize is set to stepsize_bar, while stepsize_bar and h_bar are never
\* changed again; so the first iteration after the warm-up still simulates
\* with the stepsize of the last update, and every iteration from the second
\* one after the warm-up on (i > num_adapt + 1 in sample, i > num_adapt + 2 in
\* generate_sample) simulates with the stepsize_bar reached at the end of the
\* warm-up.
C11_FrozenOneIterationLater ==
  /\ [](\A f \in Frames :
          (cur = f /\ InDaLoop(frames[f]) /\ ev.sim.by = "_sample"
             /\ frames[f].i > frames[f].num_adapt + 1)
          => ev.sim.stepsize = frames[f].stepsize_bar)
  /\ [][\A f \in Frames :
          (InDaLoop(frames[f]) /\ InDaLoop(frames'[f]))
          => IF frames[f].pc = "accept" /\ frames[f].i <= frames[f].num_adapt
             THEN LET r == _adapt_params(sampler.delta, frames[f].stepsize,
                                         frames[f].stepsize_bar, frames[f].h_bar,
                                         frames[f].mu, frames[f].i, ev'.step.alpha)
                  IN  /\ frames'[f].stepsize = r.stepsize
                      /\ frames'[f].stepsize_bar = r.stepsize_bar
                      /\ frames'[f].h_bar = r.h_bar
             ELSE /\ frames'[f].stepsize_bar = frames[f].stepsize_bar
                  /\ frames'[f].h_bar = frames[f].h_bar
                  /\ frames'[f].stepsize = IF frames[f].pc = "accept"
                                           THEN frames[f].stepsize_bar
                                           ELSE frames[f].stepsize]_vars

C11_SecondIterationAfterWarmup ==
  \E f \in Frames :
    /\ cur = f /\ InDaLoop(frames[f]) /\ ev.sim.by = "_sample"
    /\ frames[f].i = frames[f].num_adapt + 2
    /\ ev.sim.stepsize = frames[f].stepsize_bar
    /\ frames[f].stepsize_bar # Fin(0)

\* C12: every call of the dynamics simulator that is handed a cached gradient
\* gets the gradient of the log-density at the position passed in that same
\* call, in each sub-step of the trajectory loop of _sample and in each pass of
\* the doubling / halving loop of _find_reasonable_stepsize.
C12_CachedGradientAtPassedPosition ==
  (ev.sim.by # "none" /\ ev.sim.grad # None)
  => ev.sim.grad = get_gradient_log_pdf(ev.sim.position).grad

\* the frame is inside _find_reasonable_stepsize
Searching(fr) == fr.pc \in {"find_stepsize", "find_loop"}

OnSearchSide(p, a) == IF a = 1 THEN FGt(p, Fin(500)) ELSE FLt(p, Fin(500))

====
